---- MODULE Spec2Model ----
(***************************************************************************)
(* Model of the basic-kg-rag utilities:                                    *)
(*   - topicized-viewer/scripts/load-content.cjs : the content catalog      *)
(*     build step (scan, fingerprint, publish, write catalog);             *)
(*   - topicized-viewer/src/Viewer.tsx : the viewer's fetch effect;         *)
(*   - rerun_until_success.sh : the retry wrapper.                         *)
(* Strings that the code takes apart (paths, hashes) are sequences of      *)
(* one-character strings; file contents are opaque strings.                *)
(***************************************************************************)
EXTENDS Integers, Sequences, FiniteSets, TLC

\* ------------------------------------------------------------------ bounds
MaxFiles == 2
MaxRuns == 2
MaxAttempts == 4
MaxPending == 3

\* ------------------------------------------------------- program constants
NUM_HEX_CHARS == 16

\* ------------------------------------------------------------ string tools
RECURSIVE LastIndexOf(_, _)
LastIndexOf(s, c) ==
    IF Len(s) = 0 THEN 0
    ELSE IF s[Len(s)] = c THEN Len(s)
    ELSE LastIndexOf(SubSeq(s, 1, Len(s) - 1), c)

EndsWith(s, suffix) ==
    /\ Len(suffix) <= Len(s)
    /\ SubSeq(s, Len(s) - Len(suffix) + 1, Len(s)) = suffix

RECURSIVE SplitPath(_)
SplitPath(p) ==
    IF Len(p) = 0 THEN << <<>> >>
    ELSE LET rest == SplitPath(Tail(p))
         IN IF Head(p) = "/" THEN << <<>> >> \o rest
            ELSE << <<Head(p)>> \o Head(rest) >> \o Tail(rest)

RECURSIVE JoinSegs(_)
JoinSegs(segs) ==
    IF Len(segs) = 0 THEN <<>>
    ELSE IF Len(segs) = 1 THEN segs[1]
    ELSE segs[1] \o <<"/">> \o JoinSegs(Tail(segs))

\* ------------------------------------------------------ node "path" module
\* path.extname: from the last "." of the last segment to the end; "" when
\* there is no ".", when the "." is the segment's first character, or for "..".
ExtName(p) ==
    LET startPart == LastIndexOf(p, "/") + 1
        seg == SubSeq(p, startPart, Len(p))
        dotInSeg == LastIndexOf(seg, ".")
        startDot == IF dotInSeg = 0 THEN 0 ELSE startPart + dotInSeg - 1
        preDotState == IF startDot = 0 \/ startDot = startPart THEN 0
                       ELSE IF p[startPart] = "." THEN 1 ELSE -1
    IN IF \/ startDot = 0
          \/ preDotState = 0
          \/ (preDotState = 1 /\ startDot = Len(p) /\ startDot = startPart + 1)
       THEN <<>>
       ELSE SubSeq(p, startDot, Len(p))

\* path.basename(p, ext): the last segment, without the suffix ext unless the
\* suffix is the whole segment.
BaseName(p, ext) ==
    LET seg == SubSeq(p, LastIndexOf(p, "/") + 1, Len(p))
    IN IF Len(ext) > 0 /\ Len(ext) <= Len(p) /\ ext = p THEN <<>>
       ELSE IF Len(ext) > 0 /\ Len(ext) < Len(seg) /\ EndsWith(seg, ext)
            THEN SubSeq(seg, 1, Len(seg) - Len(ext))
            ELSE seg

\* path.dirname of a relative path: "." for a file directly in the root.
DirName(p) ==
    LET slash == LastIndexOf(p, "/")
    IN IF slash = 0 THEN <<".">>
       ELSE IF slash = 1 THEN <<"/">>
       ELSE SubSeq(p, 1, slash - 1)

\* path.posix.join(a, b): joined with "/", then normalized ("." and empty
\* segments dropped; the paths of the model hold no ".." segment).
PosixJoin(a, b) ==
    LET joined == IF Len(a) = 0 THEN b ELSE a \o <<"/">> \o b
        kept == SelectSeq(SplitPath(joined), LAMBDA s : s # <<>> /\ s # <<".">>)
    IN IF Len(kept) = 0 THEN <<".">>
       ELSE IF Head(joined) = "/" THEN <<"/">> \o JoinSegs(kept)
       ELSE JoinSegs(kept)

\* ------------------------------------------------------------- fingerprint
\* crypto md5 hex digests of the file contents of the model.
MD5Hex(bytes) ==
    CASE bytes = "hello" ->
           <<"5","d","4","1","4","0","2","a","b","c","4","b","2","a","7","6",
             "b","9","7","1","9","d","9","1","1","0","1","7","c","5","9","2">>
      [] bytes = "world" ->
           <<"7","d","7","9","3","0","3","7","a","0","7","6","0","1","8","6",
             "5","7","4","b","0","2","8","2","f","2","f","4","3","5","e","7">>

Fingerprint(bytes) == SubSeq(MD5Hex(bytes), 1, NUM_HEX_CHARS)

\* `${name}.${hash}${ext}`
HashedNameHashLast(name, hash, ext) == name \o ext \o <<".">> \o hash

HashedName(name, hash, ext) == name \o <<".">> \o hash \o ext

\* path.posix.join(path.dirname(relPath), hashedName)
OutputRel(relPath, bytes) ==
    LET ext == ExtName(relPath)
        name == BaseName(relPath, ext)
    IN PosixJoin(DirName(relPath), HashedName(name, Fingerprint(bytes), ext))

\* `/${path.posix.join('content', outputRel)}`
CatalogValue(outputRel) ==
    <<"/">> \o PosixJoin(<<"c","o","n","t","e","n","t">>, outputRel)


\* ----------------------------------------------------------------- domains
\* Relative paths of the content root: "a.t", "d/a.b.t", "7", ".h".
PathPool ==
    { <<"a",".","t">>,
      <<"d","/","a",".","b",".","t">>,
      <<"7">>,
      <<".","h">> }

BytesPool == {"hello", "world"}

\* What an interrupted copy leaves at the destination.
Truncated == "<truncated>"

Range(s) == {s[i] : i \in DOMAIN s}

Entries == [path : PathPool, bytes : BytesPool]

DistinctPaths(s) == \A i, j \in DOMAIN s : i # j => s[i].path # s[j].path

\* The directory listings the content root can hold: files in the order the
\* file system enumerates them.
AllContents ==
    UNION {{s \in [1..n -> Entries] : DistinctPaths(s)} : n \in 0..MaxFiles}

NoFile == [exists |-> FALSE, opened |-> FALSE, entries |-> <<>>, closed |-> FALSE]

EmptyFile == [exists |-> TRUE, opened |-> FALSE, entries |-> <<>>, closed |-> FALSE]

NoDir == [exists |-> FALSE, files |-> {}]

EmptyDir == [exists |-> TRUE, files |-> {}]

NoPrev == [valid |-> FALSE, cat |-> NoFile, out |-> NoDir]

VARIABLES
    contentExists,  \* CONTENT_DIR exists
    content,        \* CONTENT_DIR: sequence of [path, bytes] in enumeration order
    out,            \* PUBLIC_CONTENT_DIR: [exists, files : set of [path, bytes]]
    catalogFile,    \* CATALOG_FILE on disk: [exists, opened, entries, closed]
    pc,             \* position of the build script
    files,          \* main: const files
    idx,            \* processFiles: index of the forEach (kept when it throws)
    catalog,        \* processFiles: const catalog (own properties in JS order)
    written,        \* writeCatalog: tokens of the serialized catalog written
    exitCode,       \* exit code of the node process (-1 while none)
    printed,        \* the "Processed ..." line was logged by this run
    runs,           \* runs started
    failedAt,       \* the step whose exception ended the run
    startCatalog,   \* CATALOG_FILE as it was when the run started
    prev,           \* result of the preceding run when it succeeded on this content
    edited,         \* the content root changed since the last run started
    observed,       \* what a consumer last read from CATALOG_FILE
    jsonFile,       \* Viewer: route parameter
    pending,        \* Viewer: fetches in flight
    data,           \* Viewer: data state
    argc,           \* retry wrapper: $#
    rpc,            \* retry wrapper: position
    rc,             \* retry wrapper: $rc
    attempts,       \* retry wrapper: executions of the command
    rexit,          \* retry wrapper: exit code (-1 while running)
    stdout          \* retry wrapper: lines echoed

buildVars ==
    <<contentExists, content, out, catalogFile, pc, files, idx, catalog,
      written, exitCode, printed, runs, failedAt, startCatalog, prev,
      edited, observed>>

viewerVars == <<jsonFile, pending, data>>

retryVars == <<argc, rpc, rc, attempts, rexit, stdout>>

vars == <<buildVars, viewerVars, retryVars>>

\* ------------------------------------------------------------- JS objects
DigitValue(c) ==
    CASE c = "0" -> 0 [] c = "1" -> 1 [] c = "2" -> 2 [] c = "3" -> 3
      [] c = "4" -> 4 [] c = "5" -> 5 [] c = "6" -> 6 [] c = "7" -> 7
      [] c = "8" -> 8 [] c = "9" -> 9 [] OTHER -> -1

\* An integer index key: a canonical decimal numeral.
IsArrayIndex(k) ==
    /\ Len(k) > 0
    /\ \A i \in DOMAIN k : DigitValue(k[i]) >= 0
    /\ (Len(k) = 1 \/ k[1] # "0")

RECURSIVE ToNumber(_)
ToNumber(k) ==
    IF Len(k) = 0 THEN 0
    ELSE 10 * ToNumber(SubSeq(k, 1, Len(k) - 1)) + DigitValue(k[Len(k)])

\* obj[k] = v: own property order is integer keys ascending, then string keys
\* in insertion order; assigning an existing key keeps its place.
ObjectSet(obj, k, v) ==
    LET new == [k |-> k, v |-> v]
        Lower(e) == IsArrayIndex(e.k) /\ ToNumber(e.k) < ToNumber(k)
    IN IF \E i \in DOMAIN obj : obj[i].k = k
       THEN [i \in DOMAIN obj |-> IF obj[i].k = k THEN new ELSE obj[i]]
       ELSE IF IsArrayIndex(k)
            THEN SelectSeq(obj, Lower) \o <<new>>
                   \o SelectSeq(obj, LAMBDA e : ~Lower(e))
            ELSE Append(obj, new)

Keys(obj) == {obj[i].k : i \in DOMAIN obj}

\* ------------------------------------------------------------ file system
\* fast-glob with dot: false leaves out every entry with a segment that
\* starts with ".".
IsHidden(p) == \E i \in DOMAIN SplitPath(p) :
                  /\ SplitPath(p)[i] # <<>>
                  /\ SplitPath(p)[i][1] = "."

PathsOf(listing) == [i \in DOMAIN listing |-> listing[i].path]

\* scanRecursive(rootDir, opts): fg.sync('**/*', {cwd, onlyFiles, dot}); a cwd
\* that does not exist yields no entry (fast-glob suppresses ENOENT).
ScanRecursive(exists, listing, dot) ==
    IF ~exists THEN <<>>
    ELSE PathsOf(SelectSeq(listing, LAMBDA e : dot \/ ~IsHidden(e.path)))

BytesOf(relPath) == (CHOOSE e \in Range(content) : e.path = relPath).bytes

\* catalog[relPath] = ...: the key of a file's catalog entry.
CatalogKeyOutput(relPath, outputRel) == outputRel

CatalogKey(relPath, outputRel) == relPath

\* fs.copySync(src, dest): dest is created or overwritten.
CopyInto(dir, dest, bytes) ==
    [exists |-> TRUE,
     files |-> {f \in dir.files : f.path # dest} \cup {[path |-> dest, bytes |-> bytes]}]

\* fs.writeFileSync opens with flag 'w': the file is created or truncated.
OpenAppend(file) == [file EXCEPT !.exists = TRUE]

OpenTruncate(file) == EmptyFile

Min(a, b) == IF a < b THEN a ELSE b

Max(a, b) == IF a > b THEN a ELSE b

\* The serialized catalog is "{", one token per entry, "}".
TokenCount(obj) == Len(obj) + 2

\* The file after tokens from..to of the serialized obj are written at its end.
WriteTokens(file, obj, from, to) ==
    [exists |-> TRUE,
     opened |-> file.opened \/ from = 1,
     entries |-> file.entries \o SubSeq(obj, Max(from - 1, 1), Min(to - 1, Len(obj))),
     closed |-> to = TokenCount(obj)]

Complete(file) == file.exists /\ file.opened /\ file.closed

Serialized(obj) == [exists |-> TRUE, opened |-> TRUE, entries |-> obj, closed |-> TRUE]


\* ------------------------------------------------------------ build script
Stopped == pc \in {"idle", "done", "aborted"}

\* An uncaught exception ends the node process with exit code 1.
Throw(step) ==
    /\ pc' = "aborted"
    /\ failedAt' = step
    /\ exitCode' = 1

\* node scripts/load-content.cjs: module load up to process.chdir.
Main ==
    /\ Stopped
    /\ runs < MaxRuns
    /\ runs' = runs + 1
    /\ pc' = "clear"
    /\ files' = <<>>
    /\ idx' = 1
    /\ catalog' = <<>>
    /\ written' = 0
    /\ exitCode' = -1
    /\ printed' = FALSE
    /\ failedAt' = "none"
    /\ startCatalog' = catalogFile
    /\ prev' = IF pc = "done" /\ ~edited
               THEN [valid |-> TRUE, cat |-> catalogFile, out |-> out]
               ELSE NoPrev
    /\ edited' = FALSE
    /\ observed' = catalogFile
    /\ UNCHANGED <<contentExists, content, out, catalogFile>>
    /\ UNCHANGED <<viewerVars, retryVars>>

ClearPublicContentKeep ==
    /\ pc = "clear"
    /\ out' = [out EXCEPT !.exists = TRUE]
    /\ pc' = "scan"
    /\ UNCHANGED <<contentExists, content, catalogFile, files, idx, catalog,
                   written, exitCode, printed, runs, failedAt, startCatalog, prev,
                   edited, observed>>
    /\ UNCHANGED <<viewerVars, retryVars>>

\* clearPublicContent: removeSync, then ensureDirSync.
ClearPublicContent ==
    /\ pc = "clear"
    /\ out' = EmptyDir
    /\ pc' = "scan"
    /\ UNCHANGED <<contentExists, content, catalogFile, files, idx, catalog,
                   written, exitCode, printed, runs, failedAt, startCatalog, prev,
                   edited, observed>>
    /\ UNCHANGED <<viewerVars, retryVars>>

\* removeSync or ensureDirSync throws: the directory is as it was, or gone.
ClearPublicContentThrows ==
    /\ pc = "clear"
    /\ \E removed \in BOOLEAN : out' = IF removed THEN NoDir ELSE out
    /\ Throw("clear")
    /\ UNCHANGED <<contentExists, content, catalogFile, files, idx, catalog,
                   written, printed, runs, startCatalog, prev, edited, observed>>
    /\ UNCHANGED <<viewerVars, retryVars>>

\* const files = getContentFiles()
GetContentFiles ==
    /\ pc = "scan"
    /\ files' = ScanRecursive(contentExists, content, FALSE)
    /\ idx' = 1
    /\ catalog' = <<>>
    /\ pc' = "process"
    /\ UNCHANGED <<contentExists, content, out, catalogFile, written,
                   exitCode, printed, runs, failedAt, startCatalog, prev, edited,
                   observed>>
    /\ UNCHANGED <<viewerVars, retryVars>>

\* One iteration of the forEach of processFiles.
ProcessFile ==
    /\ pc = "process"
    /\ idx <= Len(files)
    /\ LET relPath == files[idx]
           bytes == BytesOf(relPath)
           outputRel == OutputRel(relPath, bytes)
       IN /\ out' = CopyInto(out, outputRel, bytes)
          /\ catalog' = ObjectSet(catalog, CatalogKey(relPath, outputRel),
                                   CatalogValue(outputRel))
    /\ idx' = idx + 1
    /\ UNCHANGED <<contentExists, content, catalogFile, pc, files, written,
                   exitCode, printed, runs, failedAt, startCatalog, prev, edited,
                   observed>>
    /\ UNCHANGED <<viewerVars, retryVars>>

\* A handler that catches the exception of one file and goes on with the next.
ProcessFileCaught ==
    /\ pc = "process"
    /\ idx <= Len(files)
    /\ idx' = idx + 1
    /\ failedAt' = "file"
    /\ UNCHANGED <<contentExists, content, out, catalogFile, pc, files,
                   catalog, written, exitCode, printed, runs,
                   startCatalog, prev, edited, observed>>
    /\ UNCHANGED <<viewerVars, retryVars>>

\* readFileSync, the hashing or copySync throws: nothing catches it. A copy
\* that fails part-way may leave a truncated destination file.
ProcessFileThrows ==
    /\ pc = "process"
    /\ idx <= Len(files)
    /\ \E partial \in BOOLEAN :
          out' = IF partial
                 THEN CopyInto(out, OutputRel(files[idx], BytesOf(files[idx])), Truncated)
                 ELSE out
    /\ Throw("file")
    /\ UNCHANGED <<contentExists, content, catalogFile, files, idx, catalog,
                   written, printed, runs, startCatalog, prev, edited, observed>>
    /\ UNCHANGED <<viewerVars, retryVars>>

\* writeCatalog: ensureDirSync, then writeJsonSync opens CATALOG_FILE.
WriteCatalogOpen ==
    /\ pc = "process"
    /\ idx > Len(files)
    /\ catalogFile' = OpenTruncate(catalogFile)
    /\ written' = 0
    /\ pc' = "write"
    /\ UNCHANGED <<contentExists, content, out, files, idx, catalog,
                   exitCode, printed, runs, failedAt, startCatalog, prev, edited,
                   observed>>
    /\ UNCHANGED <<viewerVars, retryVars>>

\* ensureDirSync or the open throws: CATALOG_FILE is untouched.
WriteCatalogOpenThrows ==
    /\ pc = "process"
    /\ idx > Len(files)
    /\ Throw("write")
    /\ UNCHANGED <<contentExists, content, out, catalogFile, files, idx,
                   catalog, written, printed, runs, startCatalog, prev, edited,
                   observed>>
    /\ UNCHANGED <<viewerVars, retryVars>>

\* One write of writeFileSync's loop: some or all of what is left.
WriteCatalogData ==
    /\ pc = "write"
    /\ written < TokenCount(catalog)
    /\ \E to \in (written + 1)..TokenCount(catalog) :
          /\ catalogFile' = WriteTokens(catalogFile, catalog, written + 1, to)
          /\ written' = to
    /\ UNCHANGED <<contentExists, content, out, pc, files, idx, catalog,
                   exitCode, printed, runs, failedAt, startCatalog, prev, edited,
                   observed>>
    /\ UNCHANGED <<viewerVars, retryVars>>

\* A write throws (disk full, I/O error): what was written stays.
WriteCatalogDataThrows ==
    /\ pc = "write"
    /\ written < TokenCount(catalog)
    /\ Throw("write")
    /\ UNCHANGED <<contentExists, content, out, catalogFile, files, idx,
                   catalog, written, printed, runs, startCatalog, prev, edited,
                   observed>>
    /\ UNCHANGED <<viewerVars, retryVars>>

\* The file is closed, main logs the count and returns: exit code 0.
MainLog ==
    /\ pc = "write"
    /\ written = TokenCount(catalog)
    /\ printed' = TRUE
    /\ exitCode' = 0
    /\ pc' = "done"
    /\ UNCHANGED <<contentExists, content, out, catalogFile, files, idx,
                   catalog, written, runs, failedAt, startCatalog, prev, edited,
                   observed>>
    /\ UNCHANGED <<viewerVars, retryVars>>

\* --------------------------------------------------------- the environment
EditDone ==
    /\ edited' = TRUE
    /\ UNCHANGED <<out, catalogFile, pc, files, idx, catalog, written, exitCode,
                   printed, runs, failedAt, startCatalog, prev, observed>>
    /\ UNCHANGED <<viewerVars, retryVars>>

InsertAt(s, pos, e) == SubSeq(s, 1, pos) \o <<e>> \o SubSeq(s, pos + 1, Len(s))

RemoveAt(s, i) == SubSeq(s, 1, i - 1) \o SubSeq(s, i + 1, Len(s))

AddFile ==
    /\ Stopped /\ runs > 0 /\ ~edited
    /\ contentExists
    /\ Len(content) < MaxFiles
    /\ \E e \in Entries, pos \in 0..Len(content) :
          /\ \A i \in DOMAIN content : content[i].path # e.path
          /\ content' = InsertAt(content, pos, e)
    /\ UNCHANGED contentExists
    /\ EditDone

RemoveFile ==
    /\ Stopped /\ runs > 0 /\ ~edited
    /\ \E i \in DOMAIN content : content' = RemoveAt(content, i)
    /\ UNCHANGED contentExists
    /\ EditDone

ModifyFile ==
    /\ Stopped /\ runs > 0 /\ ~edited
    /\ \E i \in DOMAIN content, b \in BytesPool :
          /\ b # content[i].bytes
          /\ content' = [content EXCEPT ![i].bytes = b]
    /\ UNCHANGED contentExists
    /\ EditDone

RemoveContentRoot ==
    /\ Stopped /\ runs > 0 /\ ~edited
    /\ contentExists
    /\ contentExists' = FALSE
    /\ content' = <<>>
    /\ EditDone

CreateContentRoot ==
    /\ Stopped /\ runs > 0 /\ ~edited
    /\ ~contentExists
    /\ contentExists' = TRUE
    /\ content' = <<>>
    /\ EditDone

\* A consumer (the static server, the bundler) reads CATALOG_FILE while the
\* build runs; observed starts each run as the file the run found.
ConsumerRead ==
    /\ ~Stopped
    /\ observed # catalogFile
    /\ observed' = catalogFile
    /\ UNCHANGED <<contentExists, content, out, catalogFile, pc, files, idx,
                   catalog, written, exitCode, printed, runs, failedAt, startCatalog,
                   prev, edited>>
    /\ UNCHANGED <<viewerVars, retryVars>>

\* ------------------------------------------------------------------ Viewer
\* Keys of contentCatalog that the route parameter takes.
ViewerKeys == {"A", "B", "C"}

\* The JSON the server holds at contentCatalog[k].
Content(k) == k

ViewerRest == UNCHANGED <<buildVars, retryVars>>

\* setData(json) of the fetchData call that awaited this response.
SetData(req) == Content(req.key)

\* The route parameter becomes k (mount or navigation): the effect of
\* [jsonFile] runs fetchData, whose closure holds k. Earlier calls go on.
Navigate ==
    /\ Len(pending) < MaxPending
    /\ \E k \in ViewerKeys :
          /\ k # jsonFile
          /\ jsonFile' = k
          /\ pending' = Append([i \in DOMAIN pending |->
                                   [pending[i] EXCEPT !.current = FALSE]],
                               [key |-> k, current |-> TRUE])
    /\ UNCHANGED data
    /\ ViewerRest

\* A fetch resolves and its body parses: setData(json). Responses arrive in
\* any order.
ResponseArrives ==
    /\ \E i \in DOMAIN pending :
          /\ data' = SetData(pending[i])
          /\ pending' = RemoveAt(pending, i)
    /\ UNCHANGED jsonFile
    /\ ViewerRest

\* A fetch rejects or its body does not parse: fetchData's promise rejects and
\* nothing is set. The fetch of the current route is taken to succeed.
ResponseFails ==
    /\ \E i \in DOMAIN pending :
          /\ ~pending[i].current
          /\ pending' = RemoveAt(pending, i)
    /\ UNCHANGED <<jsonFile, data>>
    /\ ViewerRest

\* ----------------------------------------------------------- retry wrapper
\* Exit codes the command returns.
RcPool == {0, 1, 2}

\* echo "... Command failed with exit code $rc. Retrying..."
FailedLine(code) == IF code = 1 THEN "failed with exit code 1"
                    ELSE "failed with exit code 2"

RetryRest == UNCHANGED <<buildVars, viewerVars>>

\* if [ "$#" -lt 1 ]: usage, exit 1.
RetryUsage ==
    /\ rpc = "start"
    /\ argc < 1
    /\ stdout' = Append(stdout, "usage")
    /\ rexit' = 1
    /\ rpc' = "exited"
    /\ UNCHANGED <<argc, rc, attempts>>
    /\ RetryRest

\* Otherwise the loop is entered.
RetryEnter ==
    /\ rpc = "start"
    /\ ~(argc < 1)
    /\ rpc' = "run"
    /\ UNCHANGED <<argc, rc, attempts, rexit, stdout>>
    /\ RetryRest

\* "$@"; rc=$?
RetryRun ==
    /\ rpc = "run"
    /\ attempts < MaxAttempts
    /\ \E code \in RcPool : rc' = code
    /\ attempts' = attempts + 1
    /\ rpc' = "check"
    /\ UNCHANGED <<argc, rexit, stdout>>
    /\ RetryRest

\* if [ "$rc" -eq 0 ]: exit 0.
RetrySucceeded ==
    /\ rpc = "check"
    /\ rc = 0
    /\ stdout' = Append(stdout, "succeeded")
    /\ rexit' = 0
    /\ rpc' = "exited"
    /\ UNCHANGED <<argc, rc, attempts>>
    /\ RetryRest

\* A wrapper that gives up: it exits with the command's code.
RetryFailedGivesUp ==
    /\ rpc = "check"
    /\ rc # 0
    /\ stdout' = Append(stdout, FailedLine(rc))
    /\ rexit' = rc
    /\ rpc' = "exited"
    /\ UNCHANGED <<argc, rc, attempts>>
    /\ RetryRest

\* else: the warning, and the loop goes round.
RetryFailed ==
    /\ rpc = "check"
    /\ rc # 0
    /\ stdout' = Append(stdout, FailedLine(rc))
    /\ rpc' = "run"
    /\ UNCHANGED <<argc, rc, attempts, rexit>>
    /\ RetryRest

\* ---------------------------------------------------------- specifications
InitViewerIdle ==
    /\ jsonFile = "none"
    /\ pending = <<>>
    /\ data = "null"

InitRetryIdle ==
    /\ argc = 0
    /\ rpc = "start"
    /\ rc = -1
    /\ attempts = 0
    /\ rexit = -1
    /\ stdout = <<>>

InitBuild ==
    /\ contentExists \in BOOLEAN
    /\ content \in AllContents
    /\ (~contentExists => content = <<>>)
    /\ out = NoDir
    /\ catalogFile = NoFile
    /\ pc = "idle"
    /\ files = <<>>
    /\ idx = 1
    /\ catalog = <<>>
    /\ written = 0
    /\ exitCode = -1
    /\ printed = FALSE
    /\ runs = 0
    /\ failedAt = "none"
    /\ startCatalog = NoFile
    /\ prev = NoPrev
    /\ edited = FALSE
    /\ observed = NoFile

Init == InitBuild /\ InitViewerIdle /\ InitRetryIdle

Next ==
    \/ Main
    \/ ClearPublicContent
    \/ ClearPublicContentThrows
    \/ GetContentFiles
    \/ ProcessFile
    \/ ProcessFileThrows
    \/ WriteCatalogOpen
    \/ WriteCatalogOpenThrows
    \/ WriteCatalogData
    \/ WriteCatalogDataThrows
    \/ MainLog
    \/ AddFile
    \/ RemoveFile
    \/ ModifyFile
    \/ RemoveContentRoot
    \/ CreateContentRoot
    \/ ConsumerRead

Spec == Init /\ [][Next]_vars


\* The build script at rest on an empty content root.
InitBuildIdle ==
    /\ InitBuild
    /\ contentExists
    /\ content = <<>>

InitViewer ==
    /\ jsonFile = "none"
    /\ pending = <<>>
    /\ data = "null"

NextViewer ==
    \/ Navigate
    \/ ResponseArrives
    \/ ResponseFails

InitViewerSpec == InitBuildIdle /\ InitViewer /\ InitRetryIdle

SpecViewer == InitViewerSpec /\ [][NextViewer]_vars

InitRetry ==
    /\ argc \in 0..2
    /\ rpc = "start"
    /\ rc = -1
    /\ attempts = 0
    /\ rexit = -1
    /\ stdout = <<>>

NextRetry ==
    \/ RetryUsage
    \/ RetryEnter
    \/ RetryRun
    \/ RetrySucceeded
    \/ RetryFailed

InitRetrySpec == InitBuildIdle /\ InitViewerIdle /\ InitRetry

\* The shell goes on with its own steps; the command may never succeed.
SpecRetry ==
    /\ InitRetrySpec
    /\ [][NextRetry]_vars
    /\ WF_vars(RetryUsage) /\ WF_vars(RetryEnter)
    /\ WF_vars(RetrySucceeded) /\ WF_vars(RetryFailed)


\* ------------------------------------------------------------------ claims
Succeeded == pc = "done" /\ ~edited

ContentEntries == Range(content)

VisibleEntries == {e \in ContentEntries : ~IsHidden(e.path)}

PublishedFile(e) == [path |-> OutputRel(e.path, e.bytes), bytes |-> e.bytes]

\* The file a catalog value names: the value without its "/content/" prefix.
Referenced(value) == SubSeq(value, 10, Len(value))

\* C1: after a run that completes, the keys of the written catalog are exactly
\* the relative paths the scan returned, each of them once.
C1_CatalogKeysAreScan ==
    pc = "done" =>
        /\ Complete(catalogFile)
        /\ Keys(catalogFile.entries) = Range(files)
        /\ Len(catalogFile.entries) = Len(files)
        /\ (~edited => Range(files) = {e.path : e \in VisibleEntries})

C1_Witness ==
    /\ pc = "done"
    /\ Len(files) = 2
    /\ Keys(catalogFile.entries) = Range(files)

\* C2 as stated: after a successful run the output root holds exactly one
\* published file per file of the content root, and nothing else.
C2_OnePerContentFile ==
    Succeeded =>
        /\ out.files = {PublishedFile(e) : e \in ContentEntries}
        /\ Cardinality(out.files) = Len(content)

\* C2 amended: after a successful run the output root holds exactly one
\* published file per file of the content root that is not hidden (no segment
\* of its path starts with "."), and nothing else, whatever earlier runs
\* published.
C2_OnePerVisibleFile ==
    Succeeded =>
        /\ out.exists
        /\ out.files = {PublishedFile(e) : e \in VisibleEntries}
        /\ Cardinality(out.files) = Cardinality(VisibleEntries)

\* A second successful run after content that the first run published was
\* removed or changed.
C2_Witness ==
    /\ Succeeded
    /\ runs = 2
    /\ Complete(startCatalog)
    /\ \E i \in DOMAIN startCatalog.entries :
          \A f \in out.files : f.path # Referenced(startCatalog.entries[i].v)
    /\ out.files # {}

\* C3: a run that follows a successful run on an unchanged content root leaves
\* the same catalog artifact (keys, values, order) and the same published
\* files with the same contents.
C3_Idempotent ==
    (pc = "done" /\ prev.valid) =>
        /\ catalogFile = prev.cat
        /\ out = prev.out

C3_Witness ==
    /\ pc = "done"
    /\ prev.valid
    /\ Len(catalogFile.entries) = 2
    /\ catalogFile.entries[1].k # files[1]

\* The first NUM_HEX_CHARS hex characters of the md5 digests of "hello" and
\* "world".
C4_Hash(bytes) ==
    IF bytes = "hello"
    THEN <<"5","d","4","1","4","0","2","a","b","c","4","b","2","a","7","6">>
    ELSE <<"7","d","7","9","3","0","3","7","a","0","7","6","0","1","8","6">>

\* <dir>/<basename>.<h><ext> for the paths of the model.
C4_Expected(relPath, bytes) ==
    CASE relPath = <<"a",".","t">> ->
           <<"a",".">> \o C4_Hash(bytes) \o <<".","t">>
      [] relPath = <<"d","/","a",".","b",".","t">> ->
           <<"d","/","a",".","b",".">> \o C4_Hash(bytes) \o <<".","t">>
      [] relPath = <<"7">> ->
           <<"7",".">> \o C4_Hash(bytes)
      [] relPath = <<".","h">> ->
           <<".","h",".">> \o C4_Hash(bytes)

\* C4: every processed file is copied unchanged to <dir>/<basename>.<h><ext>
\* under the output root and recorded under its relative path with the value
\* "/content/<dir>/<basename>.<h><ext>"; distinct relative paths are published
\* to distinct output paths.
C4_PublishedPath ==
    pc \in {"process", "write"} =>
        /\ \A j \in 1..(idx - 1) :
              LET relPath == files[j]
                  bytes == BytesOf(relPath)
                  expected == C4_Expected(relPath, bytes)
              IN /\ [path |-> expected, bytes |-> bytes] \in out.files
                 /\ [k |-> relPath,
                     v |-> <<"/","c","o","n","t","e","n","t","/">> \o expected]
                       \in Range(catalog)
        /\ Cardinality({f.path : f \in out.files}) = idx - 1
        /\ Len(catalog) = idx - 1

C4_Witness ==
    /\ pc = "process"
    /\ idx = 3
    /\ <<"d","/","a",".","b",".","t">> \in Range(files)
    /\ <<"7">> \in Range(files)

\* C5: when reading, hashing or copying a file fails, the run ends there: no
\* later file is published, the catalog artifact is as it was before the run,
\* the success line is not printed and the exit code is not zero.
C5_FailFast ==
    failedAt = "file" =>
        /\ pc = "aborted"
        /\ exitCode > 0
        /\ ~printed
        /\ catalogFile = startCatalog
        /\ ~edited =>
              /\ \A f \in out.files :
                    \E j \in 1..idx :
                       f.path = OutputRel(files[j], BytesOf(files[j]))
              /\ \A j \in (idx + 1)..Len(files) :
                    \A f \in out.files :
                       f.path # OutputRel(files[j], BytesOf(files[j]))

C5_Witness ==
    /\ failedAt = "file"
    /\ pc = "aborted"
    /\ idx < Len(files)
    /\ Complete(startCatalog)
    /\ Len(startCatalog.entries) > 0

\* C6: a run on a content root that does not exist ends in an error with a
\* non-zero exit code; it does not complete and write an empty catalog.
C6_MissingRootFails ==
    (Stopped /\ runs > 0 /\ ~edited /\ ~contentExists) =>
        /\ pc = "aborted"
        /\ exitCode > 0

\* C7: a consumer that reads the artifact while a run executes sees the
\* complete previous catalog or the complete new one.
C7_AtomicOverwrite ==
    Complete(startCatalog) =>
        \/ observed = startCatalog
        \/ observed = Serialized(catalog)

\* C9: at the end of every run, successful or aborted, every value of the
\* catalog artifact (a complete one, as a successful run wrote it) names a
\* file present in the output root.
C9_CatalogNamesPublished ==
    (Stopped /\ runs > 0 /\ Complete(catalogFile)) =>
        \A i \in DOMAIN catalogFile.entries :
            \E f \in out.files : f.path = Referenced(catalogFile.entries[i].v)

\* C10: once no fetch is pending (the fetch of the current route having
\* succeeded), the displayed data is the content of the current jsonFile.
C10_DisplaysCurrent ==
    (pending = <<>> /\ jsonFile # "none") => data = Content(jsonFile)

\* C8: with no argument the wrapper prints the usage and exits 1 without
\* running anything; otherwise it exits only after an execution returned 0,
\* with code 0, it runs the command again after every failure, and it exits
\* once an execution has succeeded.
C8_RetryUntilSuccess ==
    /\ [](rpc = "exited" =>
            \/ (argc = 0 /\ rexit = 1 /\ attempts = 0 /\ stdout = <<"usage">>)
            \/ (argc >= 1 /\ rexit = 0 /\ rc = 0 /\ attempts >= 1))
    /\ [][(rpc = "check" /\ rc # 0) => (rpc' = "run" /\ rexit' = -1)]_vars
    /\ [][(rpc = "run" /\ rpc' # "run") => attempts' = attempts + 1]_vars
    /\ ((rpc = "check" /\ rc = 0) ~> (rpc = "exited" /\ rexit = 0))
    /\ ((rpc = "start" /\ argc = 0) ~> (rpc = "exited" /\ rexit = 1))

C8_Witness ==
    /\ rpc = "exited"
    /\ rexit = 0
    /\ attempts >= 3
    /\ argc >= 1

====
